---- MODULE Spec2Model ----
(***************************************************************************)
(* boxerdb: a single-file copy-on-write B+ tree (src/src/storage).         *)
(*                                                                         *)
(* The file is modelled page by page: page 0 is the metadata page (its     *)
(* first 8 bytes, the root offset, are the variable `metadata`), and       *)
(* `pages` holds the node pages that follow it, in file order.  Offsets    *)
(* are byte offsets, as in the code.  A node page is held as the node it   *)
(* decodes to; the byte layout of node.rs enters through EncodedSize,      *)
(* which is the final cursor of Node::encode_node.                         *)
(*                                                                         *)
(* Every public operation (open, insert, delete) is one action.  A panic   *)
(* (an unwrap on an error, an index out of range, an explicit panic!, a    *)
(* stack overflow in the recursion) ends the process: the store is then    *)
(* "closed" and the file keeps what had been written until that point.     *)
(***************************************************************************)
EXTENDS Integers, Sequences, FiniteSets, TLC

VARIABLES
    storage_config, \* BTree.storage_config: the configuration given to BTree::new
    pages,        \* DiskManager.file: the node pages after the metadata page
    metadata,     \* DiskManager.file: <<root offset>> held by the metadata page,
                  \* <<>> while the file is empty
    root,         \* BTree.root: the cached, decoded root node
    root_offset,  \* BTree.root_offset
    status,       \* "open": a BTree value exists; "closed": dropped or aborted
    last,         \* history: the operation that produced this state
    pre,          \* history: file and facade before that operation
    nops,         \* history: number of inserts and deletes started so far
    ncrashes,     \* history: how many of them were interrupted
    codec         \* the page codec at work on its own: a node, its page, the
                  \* node decoded from that page

vars == <<storage_config, pages, metadata, root, root_offset, status, last, pre, nops, ncrashes, codec>>

----------------------------------------------------------------------------
(* StorageConfig: the configuration the store is opened with.  BTree::new  *)
(* takes any configuration.  ScaledConfig is Default (configs.rs) scaled    *)
(* down, keeping its proportions: one entry of maximal key and value fits a *)
(* page, two do not, min_node_size is a quarter of the page, and the first  *)
(* node page follows the metadata page.  TestConfig is the configuration of *)
(* get_temp_btree_new_configs in the tests of btree.rs.                     *)

ScaledConfig ==
    [page_size |-> 48, max_key_size |-> 2, max_val_size |-> 16,
     metadata_offset |-> 0, first_page_offset |-> 48, min_node_size |-> 12]

TestConfig ==
    [page_size |-> 32, max_key_size |-> 16, max_val_size |-> 16,
     metadata_offset |-> 0, first_page_offset |-> 32, min_node_size |-> 8]

page_size == storage_config.page_size
max_key_size == storage_config.max_key_size
max_val_size == storage_config.max_val_size
metadata_offset == storage_config.metadata_offset
first_page_offset == storage_config.first_page_offset
min_node_size == storage_config.min_node_size

(* Bounds of the exploration: inserts and deletes per run, and how many of  *)
(* them may be interrupted.                                                 *)
MaxOps == 4
MaxCrashes == 1

(* Inputs: byte strings within the configured limits.                       *)
BigVal == [i \in 1..max_val_size |-> 9]
Keys == {<<1>>, <<1, 2>>, <<2>>}
Vals == {<<7>>, BigVal}

(* Inputs beyond the configured limits: a key one byte longer than          *)
(* max_key_size, a value one byte longer than max_val_size.                 *)
OversizeKey == [i \in 1..(max_key_size + 1) |-> i]
OversizeVal == [i \in 1..(max_val_size + 1) |-> 9]
OversizeInputs == {<<OversizeKey, <<7>>>>, <<<<1>>, OversizeVal>>}

----------------------------------------------------------------------------
(* Vec<u8> ordering and the Vec operations the engine uses.                 *)

RECURSIVE LexLess(_, _)
LexLess(a, b) ==
    IF a = <<>> THEN b # <<>>
    ELSE IF b = <<>> THEN FALSE
    ELSE IF Head(a) < Head(b) THEN TRUE
    ELSE IF Head(a) > Head(b) THEN FALSE
    ELSE LexLess(Tail(a), Tail(b))

(* slice::binary_search: Ok(pos) is [found |-> TRUE], Err(pos) is          *)
(* [found |-> FALSE]; positions are 0-based as in the code.                 *)
RECURSIVE bsearch(_, _, _, _)
bsearch(keys, key, left, right) ==
    IF left >= right THEN [found |-> FALSE, pos |-> left]
    ELSE LET mid == left + ((right - left) \div 2)
         IN  IF LexLess(keys[mid + 1], key) THEN bsearch(keys, key, mid + 1, right)
             ELSE IF LexLess(key, keys[mid + 1]) THEN bsearch(keys, key, left, mid)
             ELSE [found |-> TRUE, pos |-> mid]

binary_search(keys, key) == bsearch(keys, key, 0, Len(keys))

(* Vec::insert(pos, x) and Vec::remove(pos), 0-based.                       *)
VecInsert(s, pos, x) == SubSeq(s, 1, pos) \o <<x>> \o SubSeq(s, pos + 1, Len(s))
VecRemove(s, pos) == SubSeq(s, 1, pos) \o SubSeq(s, pos + 2, Len(s))

----------------------------------------------------------------------------
(* Node and its page encoding.                                              *)

MkNode(k, c, v) == [keys |-> k, children |-> c, values |-> v]
EmptyLeaf == MkNode(<<>>, <<>>, <<>>)

IsLeaf(node) == Len(node.children) = 0

RECURSIVE SlotBytes(_, _)
SlotBytes(node, i) ==
    IF i > Len(node.keys) THEN 0
    ELSE 4 + Len(node.keys[i])
           + (IF IsLeaf(node) THEN Len(node.values[i]) ELSE 0)
           + SlotBytes(node, i + 1)

(* The cursor of Node::encode_node after the last slot: tag and key count,  *)
(* the child pointers of an internal node, one u16 offset per key, then     *)
(* key_len, val_len, key bytes and value bytes per key.                     *)
EncodedSize(node) ==
    3 + (IF IsLeaf(node) THEN 0 ELSE 8 * Len(node.children))
      + 2 * Len(node.keys)
      + SlotBytes(node, 1)

(* The limits the slot loop of Node::encode_node asserts: the constants of  *)
(* constants.rs, whatever configuration the store was opened with.          *)
BTREE_MAX_KEY_SIZE == 1000
BTREE_MAX_VAL_SIZE == 3000

SlotsWithinLimits(node) ==
    /\ \A i \in 1..Len(node.keys) : Len(node.keys[i]) <= BTREE_MAX_KEY_SIZE
    /\ \A i \in 1..Len(node.values) : Len(node.values[i]) <= BTREE_MAX_VAL_SIZE

(* Node::encode_node(node, config) as DiskManager calls it: Some(page) or   *)
(* None when the node needs more than one page; the assertions on the child *)
(* count of an internal node and on the slot lengths panic.                 *)
encode_node(node) ==
    IF ~IsLeaf(node) /\ Len(node.children) # Len(node.keys) + 1 THEN "panic"
    ELSE IF ~SlotsWithinLimits(node) THEN "panic"
    ELSE IF EncodedSize(node) > page_size THEN "None"
    ELSE "Some"

(* The bytes of a page.  Little-endian integers, and the slice              *)
(* buf[start..end] with 0-based bounds as in the code.                      *)
BNODE_INTERNAL == 0
BNODE_LEAF == 1

RECURSIVE ToLE(_, _)
ToLE(x, width) == IF width = 0 THEN <<>> ELSE <<x % 256>> \o ToLE(x \div 256, width - 1)

U16LE(x) == ToLE(x, 2)
U64LE(x) == ToLE(x, 8)

RECURSIVE FromLE(_)
FromLE(bytes) == IF bytes = <<>> THEN 0 ELSE Head(bytes) + 256 * FromLE(Tail(bytes))

Slice(buf, start, end) == SubSeq(buf, start + 1, end)

RECURSIVE ChildBytes(_, _)
ChildBytes(children, i) ==
    IF i > Len(children) THEN <<>>
    ELSE U64LE(children[i]) \o ChildBytes(children, i + 1)

(* The slot loop of Node::encode_node from key i on, the cursor standing at *)
(* `cursor`: the entries of the offset table and the slot bytes.            *)
RECURSIVE EncodeSlots(_, _, _)
EncodeSlots(node, i, cursor) ==
    IF i > Len(node.keys) THEN [offsets |-> <<>>, slots |-> <<>>]
    ELSE
    LET Join(slot, rest) ==
            [offsets |-> U16LE(cursor) \o rest.offsets, slots |-> slot \o rest.slots]
        Next1(slot) == Join(slot, EncodeSlots(node, i + 1, cursor + Len(slot)))
        Slot(key, val) == U16LE(Len(key)) \o U16LE(Len(val)) \o key \o val
    IN  Next1(Slot(node.keys[i], IF IsLeaf(node) THEN node.values[i] ELSE <<>>))

(* Node::encode_node: the page of a node that fits, zero-filled to the end. *)
EncodePage(node) ==
    LET offsets_start == 3 + (IF IsLeaf(node) THEN 0 ELSE 8 * Len(node.children))
        Fill(used) == used \o [i \in 1..(page_size - Len(used)) |-> 0]
        Lay(enc) ==
            Fill(<<IF IsLeaf(node) THEN BNODE_LEAF ELSE BNODE_INTERNAL>>
                 \o U16LE(Len(node.keys))
                 \o (IF IsLeaf(node) THEN <<>> ELSE ChildBytes(node.children, 1))
                 \o enc.offsets \o enc.slots)
    IN  Lay(EncodeSlots(node, 1, offsets_start + 2 * Len(node.keys)))

(* Mutant: decoding reads a value out of every slot, internal pages too.    *)
decode_node_ValuesEverywhere(buf) ==
    LET num_keys == FromLE(Slice(buf, 1, 3))
        is_leaf == buf[1] = BNODE_LEAF
        cursor == 3 + (IF is_leaf THEN 0 ELSE (num_keys + 1) * 8)
        offset(i) == FromLE(Slice(buf, cursor + (i - 1) * 2, cursor + (i - 1) * 2 + 2))
        key_len(o) == FromLE(Slice(buf, o, o + 2))
        val_len(o) == FromLE(Slice(buf, o + 2, o + 4))
        key(o) == Slice(buf, o + 4, o + 4 + key_len(o))
        val(o) == Slice(buf, o + 4 + key_len(o), o + 4 + key_len(o) + val_len(o))
    IN  MkNode([i \in 1..num_keys |-> key(offset(i))],
               IF is_leaf THEN <<>>
               ELSE [i \in 1..(num_keys + 1) |->
                        FromLE(Slice(buf, 3 + (i - 1) * 8, 3 + (i - 1) * 8 + 8))],
               [i \in 1..num_keys |-> val(offset(i))])

(* Node::decode_node: tag, key count, the children of an internal page,     *)
(* the offset table, then lengths, key and value of each slot.              *)
decode_node(buf) ==
    LET num_keys == FromLE(Slice(buf, 1, 3))
        is_leaf == buf[1] = BNODE_LEAF
        cursor == 3 + (IF is_leaf THEN 0 ELSE (num_keys + 1) * 8)
        offset(i) == FromLE(Slice(buf, cursor + (i - 1) * 2, cursor + (i - 1) * 2 + 2))
        key_len(o) == FromLE(Slice(buf, o, o + 2))
        val_len(o) == FromLE(Slice(buf, o + 2, o + 4))
        key(o) == Slice(buf, o + 4, o + 4 + key_len(o))
        val(o) == Slice(buf, o + 4 + key_len(o), o + 4 + key_len(o) + val_len(o))
    IN  MkNode([i \in 1..num_keys |-> key(offset(i))],
               IF is_leaf THEN <<>>
               ELSE [i \in 1..(num_keys + 1) |->
                        FromLE(Slice(buf, 3 + (i - 1) * 8, 3 + (i - 1) * 8 + 8))],
               IF is_leaf THEN [i \in 1..num_keys |-> val(offset(i))] ELSE <<>>)

(* DiskManager::check_node_needs_merge                                      *)
check_node_needs_merge(node) == EncodedSize(node) < min_node_size

----------------------------------------------------------------------------
(* DiskManager.  dm = [pages, metadata, log, unwritten, io]: the file; the  *)
(* page writes made so far by the running operation, in order; the appends  *)
(* that answered NeedSplit and wrote nothing, less those the caller went on *)
(* to split; and every write to the file so far, the metadata page's        *)
(* included, in order.                                                      *)

MkDm(p, m) ==
    [pages |-> p, metadata |-> m, log |-> <<>>, unwritten |-> <<>>, io |-> <<>>]

(* One write to the file as the operating system sees it: write_all of one  *)
(* page at an offset, then sync_all.  value is the root offset a metadata   *)
(* write carries, 0 for a node page.                                        *)
PageWrite(offset) == [kind |-> "page", offset |-> offset, value |-> 0, sync |-> TRUE]
MetadataWrite(root_off) ==
    [kind |-> "metadata", offset |-> metadata_offset, value |-> root_off, sync |-> TRUE]

PageIndex(offset) == ((offset - first_page_offset) \div page_size) + 1

(* A page read from a hole of the file: all zero bytes decode to an         *)
(* internal node without keys and with the single child offset 0.           *)
ZeroPage == MkNode(<<>>, <<0>>, <<>>)

(* seek(Start(offset)) and write_all of one page.                           *)
WritePage(p, offset, node) ==
    LET i == PageIndex(offset)
    IN  IF i <= Len(p) THEN [p EXCEPT ![i] = node]
        ELSE p \o [j \in 1..(i - Len(p) - 1) |-> ZeroPage] \o <<node>>

(* Mutant: the end of a file whose metadata block is 8 bytes longer than a  *)
(* page.                                                                    *)
get_new_offset_PastBlock(dm) ==
    IF dm.metadata = <<>> /\ dm.pages = <<>> THEN 0
    ELSE first_page_offset + Len(dm.pages) * page_size + 8

(* Mutant: allocation hands out the offset of the last page of the file,    *)
(* so a rewrite lands on an existing page.                                  *)
get_new_offset_InPlace(dm) ==
    IF dm.metadata = <<>> /\ dm.pages = <<>> THEN 0
    ELSE IF dm.pages = <<>> THEN first_page_offset
    ELSE first_page_offset + (Len(dm.pages) - 1) * page_size

(* seek(End(0)): the length of the file.  The metadata page and the node    *)
(* pages are contiguous (first_page_offset = metadata_offset + page_size).  *)
get_new_offset(dm) ==
    IF dm.metadata = <<>> /\ dm.pages = <<>> THEN 0
    ELSE first_page_offset + Len(dm.pages) * page_size

(* Mutant: the page is written whatever the codec answered.                 *)
append_node_to_disk_WriteAnyway(dm, offset, node) ==
    LET Put(enc) ==
            IF enc = "Some"
            THEN [dm |-> [dm EXCEPT !.pages = WritePage(@, offset, node),
                                    !.log = Append(@, <<offset, node>>),
                                    !.io = Append(@, PageWrite(offset))],
                  result |-> "Encoded"]
            ELSE IF enc = "None"
            THEN [dm |-> [dm EXCEPT !.pages = WritePage(@, offset, node),
                                    !.unwritten = Append(@, <<offset, node>>)],
                  result |-> "NeedSplit"]
            ELSE [dm |-> dm, result |-> "Panic"]
    IN  Put(encode_node(node))

append_node_to_disk(dm, offset, node) ==
    LET Put(enc) ==
            IF enc = "Some"
            THEN [dm |-> [dm EXCEPT !.pages = WritePage(@, offset, node),
                                    !.log = Append(@, <<offset, node>>),
                                    !.io = Append(@, PageWrite(offset))],
                  result |-> "Encoded"]
            ELSE IF enc = "None"
            THEN [dm |-> [dm EXCEPT !.unwritten = Append(@, <<offset, node>>)],
                  result |-> "NeedSplit"]
            ELSE [dm |-> dm, result |-> "Panic"]
    IN  Put(encode_node(node))

(* The caller matched NeedSplit and splits the node it could not append.    *)
SplitInstead(dm) == [dm EXCEPT !.unwritten = SubSeq(@, 1, Len(@) - 1)]

write_metadata(dm, offset) ==
    [dm EXCEPT !.metadata = <<offset>>, !.io = Append(@, MetadataWrite(offset))]

(* read_exact of 8 bytes at metadata_offset; Ok(0) on an unexpected EOF.    *)
read_metadata(dm) == IF dm.metadata = <<>> THEN 0 ELSE dm.metadata[1]

(* read_exact of one page at offset: an error when the file ends before it. *)
load_node_from_disk(dm, offset) ==
    IF offset >= first_page_offset /\ PageIndex(offset) <= Len(dm.pages)
    THEN [ok |-> TRUE, node |-> dm.pages[PageIndex(offset)]]
    ELSE [ok |-> FALSE, node |-> EmptyLeaf]

----------------------------------------------------------------------------
(* B+ tree engine: insert.  An InsertResult is                              *)
(* [dm, new_offset, splits, panic]; Option values are sequences of length   *)
(* 0 (None) or 1 (Some).  The steps of a function body are chained through  *)
(* local operators, each taking the value the previous step produced.       *)

Replaced(dm, offset) ==
    [dm |-> dm, new_offset |-> <<offset>>, splits |-> <<>>, panic |-> FALSE]
Split(dm, key, left, right) ==
    [dm |-> dm, new_offset |-> <<>>,
     splits |-> <<[promoted_key |-> key, left_offset |-> left, right_offset |-> right]>>,
     panic |-> FALSE]
Panicked(dm) ==
    [dm |-> dm, new_offset |-> <<>>, splits |-> <<>>, panic |-> TRUE]

(* Mutant: the split point is rounded up, so the left leaf takes the        *)
(* middle key.                                                              *)
propagate_leaf_split_MidUp(dm, node, left_offset) ==
    LET n == Len(node.keys)
        mid == (n + 1) \div 2
        left_node == MkNode(SubSeq(node.keys, 1, mid), <<>>, SubSeq(node.values, 1, mid))
        right_node == MkNode(SubSeq(node.keys, mid + 1, n), <<>>,
                             SubSeq(node.values, mid + 1, n))
        Done(dm2, right_offset) ==
            IF mid >= n THEN Panicked(dm2)
            ELSE Split(dm2, node.keys[mid + 1], left_offset, right_offset)
        WriteRight(dm1, right_offset) ==
            Done(append_node_to_disk(dm1, right_offset, right_node).dm, right_offset)
        AfterLeft(dm1) == WriteRight(dm1, get_new_offset(dm1))
    IN  AfterLeft(append_node_to_disk(dm, left_offset, left_node).dm)

propagate_leaf_split(dm, node, left_offset) ==
    LET n == Len(node.keys)
        mid == n \div 2
        left_node == MkNode(SubSeq(node.keys, 1, mid), <<>>, SubSeq(node.values, 1, mid))
        right_node == MkNode(SubSeq(node.keys, mid + 1, n), <<>>,
                             SubSeq(node.values, mid + 1, n))
        Done(dm2, right_offset) ==
            IF mid >= n THEN Panicked(dm2)
            ELSE Split(dm2, node.keys[mid + 1], left_offset, right_offset)
        WriteRight(dm1, right_offset) ==
            Done(append_node_to_disk(dm1, right_offset, right_node).dm, right_offset)
        AfterLeft(dm1) == WriteRight(dm1, get_new_offset(dm1))
    IN  AfterLeft(append_node_to_disk(dm, left_offset, left_node).dm)

propagate_internal_split(dm, node, new_offset) ==
    LET n == Len(node.keys)
        mid == n \div 2
        left_node == MkNode(SubSeq(node.keys, 1, mid), SubSeq(node.children, 1, mid + 1),
                            <<>>)
        right_node == MkNode(SubSeq(node.keys, mid + 2, n),
                             SubSeq(node.children, mid + 2, Len(node.children)), <<>>)
        Done(a2, right_offset) ==
            IF a2.result = "Panic" \/ mid >= n THEN Panicked(a2.dm)
            ELSE Split(a2.dm, node.keys[mid + 1], new_offset, right_offset)
        WriteRight(dm1, right_offset) ==
            Done(append_node_to_disk(dm1, right_offset, right_node), right_offset)
        AfterLeft(a1) ==
            IF a1.result = "Panic" THEN Panicked(a1.dm)
            ELSE WriteRight(a1.dm, get_new_offset(a1.dm))
    IN  AfterLeft(append_node_to_disk(dm, new_offset, left_node))

insert_into_leaf(dm, node, key, value) ==
    LET Put(bs) ==
            IF bs.found
            THEN [node EXCEPT !.values[bs.pos + 1] = value]
            ELSE [node EXCEPT !.keys = VecInsert(@, bs.pos, key),
                              !.values = VecInsert(@, bs.pos, value)]
        Written(ap, node1, new_offset) ==
            IF ap.result = "Encoded" THEN Replaced(ap.dm, new_offset)
            ELSE IF ap.result = "Panic" THEN Panicked(ap.dm)
            ELSE propagate_leaf_split(SplitInstead(ap.dm), node1, new_offset)
        Write(node1, new_offset) ==
            Written(append_node_to_disk(dm, new_offset, node1), node1, new_offset)
    IN  Write(Put(binary_search(node.keys, key)), get_new_offset(dm))

(* depth counts the levels the recursion may still descend: a descent       *)
(* longer than the number of pages in the file revisits a page and never    *)
(* returns (the stack overflows).                                           *)
RECURSIVE insert_recursive(_, _, _, _, _)
insert_recursive(dm, node, key, value, depth) ==
    IF IsLeaf(node) THEN insert_into_leaf(dm, node, key, value)
    ELSE
    LET \* result.splits is None: point the slot at the rewritten child
        WrittenNone(ap, new_internal_offset) ==
            IF ap.result = "Panic" THEN Panicked(ap.dm)
            ELSE Replaced(ap.dm, new_internal_offset)
        ArmNone(rdm, node1, new_internal_offset) ==
            WrittenNone(append_node_to_disk(rdm, new_internal_offset, node1),
                        new_internal_offset)
        \* result.splits is Some: take the promoted key and the two children
        WrittenSome(ap, node1, new_offset) ==
            IF ap.result = "Encoded" THEN Replaced(ap.dm, new_offset)
            ELSE IF ap.result = "Panic" THEN Panicked(ap.dm)
            ELSE propagate_internal_split(SplitInstead(ap.dm), node1, new_offset)
        ArmSome(rdm, node1, new_offset) ==
            WrittenSome(append_node_to_disk(rdm, new_offset, node1), node1, new_offset)
        Returned(result, pos) ==
            IF result.panic THEN result
            ELSE IF result.splits = <<>>
            THEN ArmNone(result.dm,
                         [node EXCEPT !.children[pos + 1] = result.new_offset[1]],
                         get_new_offset(result.dm))
            ELSE ArmSome(result.dm,
                         [node EXCEPT
                            !.keys = VecInsert(@, pos, result.splits[1].promoted_key),
                            !.children = VecInsert(
                                VecInsert(VecRemove(@, pos), pos,
                                          result.splits[1].left_offset),
                                pos + 1, result.splits[1].right_offset)],
                         get_new_offset(result.dm))
        Loaded(child, pos) ==
            IF depth = 0 \/ ~child.ok THEN Panicked(dm)
            ELSE Returned(insert_recursive(dm, child.node, key, value, depth - 1), pos)
        Descend(pos) ==
            Loaded(IF pos < Len(node.children)
                   THEN load_node_from_disk(dm, node.children[pos + 1])
                   ELSE [ok |-> FALSE, node |-> EmptyLeaf],
                   pos)
    IN  Descend(binary_search(node.keys, key).pos)

MaxDepth(p) == Len(p) + 1

(* Mutant: the metadata is written but the root is not reloaded: the       *)
(* facade keeps the node of the root committed before.                      *)
Commit_KeepsCachedRoot(dm, offset) ==
    LET Kept(old) == [dm |-> write_metadata(dm, offset), root_offset |-> offset,
                      root |-> old.node, panic |-> ~old.ok]
    IN  Kept(load_node_from_disk(dm, read_metadata(dm)))

(* The end of BTree::insert and BTree::delete: the metadata write and the   *)
(* reload of the root.  [dm, root_offset, root, panic].                     *)
Commit(dm, offset) ==
    LET Reload(dm1) ==
            LET Got(ld) == [dm |-> dm1, root_offset |-> offset, root |-> ld.node,
                            panic |-> ~ld.ok]
            IN  Got(load_node_from_disk(dm1, offset))
    IN  Reload(write_metadata(dm, offset))

Aborted(dm) == [dm |-> dm, root_offset |-> 0, root |-> EmptyLeaf, panic |-> TRUE]

(* Mutant: on a root split the metadata page is written before the new     *)
(* root's page.                                                             *)
RunInsert_CommitBeforeRoot(p, m, r, key, value) ==
    LET NewRoot(rdm, new_root, new_root_offset) ==
            LET Early(c) ==
                    [c EXCEPT !.dm = append_node_to_disk(c.dm, new_root_offset,
                                                         new_root).dm,
                              !.root = new_root, !.panic = FALSE]
            IN  Early(Commit(rdm, new_root_offset))
        Returned(result) ==
            IF result.panic THEN Aborted(result.dm)
            ELSE IF result.splits = <<>> THEN Commit(result.dm, result.new_offset[1])
            ELSE NewRoot(result.dm,
                         MkNode(<<result.splits[1].promoted_key>>,
                                <<result.splits[1].left_offset,
                                  result.splits[1].right_offset>>, <<>>),
                         get_new_offset(result.dm))
    IN  Returned(insert_recursive(MkDm(p, m), r, key, value, MaxDepth(p)))

(* BTree::insert: [dm, root_offset, root, panic].                           *)
RunInsert(p, m, r, key, value) ==
    LET NewRoot(rdm, new_root, new_root_offset) ==
            Commit(append_node_to_disk(rdm, new_root_offset, new_root).dm,
                   new_root_offset)
        Returned(result) ==
            IF result.panic THEN Aborted(result.dm)
            ELSE IF result.splits = <<>> THEN Commit(result.dm, result.new_offset[1])
            ELSE NewRoot(result.dm,
                         MkNode(<<result.splits[1].promoted_key>>,
                                <<result.splits[1].left_offset,
                                  result.splits[1].right_offset>>, <<>>),
                         get_new_offset(result.dm))
    IN  Returned(insert_recursive(MkDm(p, m), r, key, value, MaxDepth(p)))

----------------------------------------------------------------------------
(* B+ tree engine: delete.  A DeleteResult is [dm, new_offset, panic].      *)

Deleted(dm, offset) == [dm |-> dm, new_offset |-> <<offset>>, panic |-> FALSE]
DeletePanicked(dm) == [dm |-> dm, new_offset |-> <<>>, panic |-> TRUE]

(* The leaf arm: on a miss the DeleteResult built in the Err arm is         *)
(* dropped (it is a statement), and control continues with the fill check   *)
(* and the rewrite, as on a hit.                                            *)
delete_from_leaf(dm, node, key) ==
    LET Take(bs) ==
            IF bs.found
            THEN [node EXCEPT !.keys = VecRemove(@, bs.pos),
                              !.values = VecRemove(@, bs.pos)]
            ELSE node
        Written(ap, new_offset) ==
            IF ap.result = "Encoded" THEN Deleted(ap.dm, new_offset)
            ELSE DeletePanicked(ap.dm)
        Write(node1, new_offset) ==
            IF check_node_needs_merge(node1) THEN DeletePanicked(dm)
            ELSE Written(append_node_to_disk(dm, new_offset, node1), new_offset)
    IN  Write(Take(binary_search(node.keys, key)), get_new_offset(dm))

(* The internal arm returns the child's result as its own: the internal     *)
(* node is not rewritten.                                                   *)
RECURSIVE delete_recursive(_, _, _, _)
delete_recursive(dm, node, key, depth) ==
    IF IsLeaf(node) THEN delete_from_leaf(dm, node, key)
    ELSE
    LET Loaded(child) ==
            IF depth = 0 \/ ~child.ok THEN DeletePanicked(dm)
            ELSE delete_recursive(dm, child.node, key, depth - 1)
        Descend(pos) ==
            Loaded(IF pos < Len(node.children)
                   THEN load_node_from_disk(dm, node.children[pos + 1])
                   ELSE [ok |-> FALSE, node |-> EmptyLeaf])
    IN  Descend(binary_search(node.keys, key).pos)

(* BTree::delete: [dm, root_offset, root, panic].                           *)
RunDelete(p, m, r, key) ==
    LET Returned(result) ==
            IF result.panic THEN Aborted(result.dm)
            ELSE Commit(result.dm, result.new_offset[1])
    IN  Returned(delete_recursive(MkDm(p, m), r, key, MaxDepth(p)))

(* Mutant: an empty file gets its metadata page but no root page.           *)
DiskManager_new_NoRootPage(dm) ==
    IF get_new_offset(dm) = 0 THEN write_metadata(dm, first_page_offset) ELSE dm

(* Mutant: open initialises the file whether or not it is empty.            *)
DiskManager_new_AlwaysInit(dm) ==
    append_node_to_disk(write_metadata(dm, first_page_offset),
                        first_page_offset, EmptyLeaf).dm

(* DiskManager::new: initialise an empty file, leave any other alone.       *)
DiskManager_new(dm) ==
    IF get_new_offset(dm) = 0
    THEN append_node_to_disk(write_metadata(dm, first_page_offset),
                             first_page_offset, EmptyLeaf).dm
    ELSE dm

(* BTree::new: [dm, root_offset, root, panic]; panic stands for Err here.   *)
RunOpen(p, m) ==
    LET Read(dm1) ==
            LET Got(ld, off) == [dm |-> dm1, root_offset |-> off, root |-> ld.node,
                                 panic |-> ~ld.ok]
                At(off) == Got(load_node_from_disk(dm1, off), off)
            IN  At(read_metadata(dm1))
    IN  Read(DiskManager_new(MkDm(p, m)))

----------------------------------------------------------------------------
(* The state machine.                                                       *)

NoKey == <<>>

Snapshot ==
    [pages |-> pages, metadata |-> metadata, root |-> root,
     root_offset |-> root_offset, status |-> status]

(* The offsets of the page writes of a log, in order.                       *)
Offsets(log) == [i \in 1..Len(log) |-> log[i][1]]

(* A record of one operation: its input, how it ended, the offsets of the   *)
(* pages it wrote and of the appends it dropped, and its writes to the file *)
(* in the order they were made.                                             *)
Op(name, key, value, outcome, writes, unwritten, io) ==
    [op |-> name, key |-> key, value |-> value, outcome |-> outcome,
     writes |-> writes, unwritten |-> unwritten, io |-> io]

(* The codec before it is used.                                             *)
NoCodec == [node |-> EmptyLeaf, encoded |-> "None", page |-> <<>>, decoded |-> EmptyLeaf]

InitWith(config) ==
    /\ storage_config = config
    /\ pages = <<>>
    /\ metadata = <<>>
    /\ root = EmptyLeaf
    /\ root_offset = 0
    /\ status = "closed"
    /\ last = Op("init", NoKey, NoKey, "ok", <<>>, <<>>, <<>>)
    /\ pre = [pages |-> <<>>, metadata |-> <<>>, root |-> EmptyLeaf,
              root_offset |-> 0, status |-> "closed"]
    /\ nops = 0
    /\ ncrashes = 0
    /\ codec = NoCodec

Init == InitWith(ScaledConfig)

(* What an operation leaves behind: the file as written, and the facade     *)
(* when the operation returned.                                             *)
Finish(name, key, value, r) ==
    /\ pages' = r.dm.pages
    /\ metadata' = r.dm.metadata
    /\ root' = IF r.panic THEN EmptyLeaf ELSE r.root
    /\ root_offset' = IF r.panic THEN 0 ELSE r.root_offset
    /\ status' = IF r.panic THEN "closed" ELSE "open"
    /\ pre' = Snapshot
    /\ last' = Op(name, key, value, IF r.panic THEN "panic" ELSE "ok",
                  Offsets(r.dm.log), Offsets(r.dm.unwritten), r.dm.io)
    /\ codec' = codec
    /\ storage_config' = storage_config

(* BTree::new, on a fresh file or after the previous BTree was dropped.     *)
Open ==
    /\ Finish("open", NoKey, NoKey, RunOpen(pages, metadata))
    /\ nops' = nops
    /\ ncrashes' = ncrashes

Insert(key, value) ==
    /\ status = "open"
    /\ nops < MaxOps
    /\ Finish("insert", key, value, RunInsert(pages, metadata, root, key, value))
    /\ nops' = nops + 1
    /\ ncrashes' = ncrashes

Delete(key) ==
    /\ status = "open"
    /\ nops < MaxOps
    /\ Finish("delete", key, NoKey, RunDelete(pages, metadata, root, key))
    /\ nops' = nops + 1
    /\ ncrashes' = ncrashes

RECURSIVE ApplyWrites(_, _)
ApplyWrites(p, log) ==
    IF log = <<>> THEN p
    ELSE ApplyWrites(WritePage(p, Head(log)[1], Head(log)[2]), Tail(log))

(* The process stops inside an insert or delete after j of its page writes  *)
(* and before its metadata write.                                           *)
Interrupted(name, key, value, r) ==
    \E j \in 0..Len(r.dm.log) :
        /\ pages' = ApplyWrites(pages, SubSeq(r.dm.log, 1, j))
        /\ metadata' = metadata
        /\ root' = EmptyLeaf
        /\ root_offset' = 0
        /\ status' = "closed"
        /\ pre' = Snapshot
        /\ last' = Op(name, key, value, "crash", Offsets(SubSeq(r.dm.log, 1, j)), <<>>,
                      [i \in 1..j |-> PageWrite(r.dm.log[i][1])])
        /\ nops' = nops + 1
        /\ ncrashes' = ncrashes + 1
        /\ codec' = codec
        /\ storage_config' = storage_config

CrashInsert(key, value) ==
    /\ status = "open"
    /\ nops < MaxOps
    /\ ncrashes < MaxCrashes
    /\ Interrupted("insert", key, value, RunInsert(pages, metadata, root, key, value))

CrashDelete(key) ==
    /\ status = "open"
    /\ nops < MaxOps
    /\ ncrashes < MaxCrashes
    /\ Interrupted("delete", key, NoKey, RunDelete(pages, metadata, root, key))

Next ==
    \/ Open
    \/ \E key \in Keys, value \in Vals : Insert(key, value)
    \/ \E key \in Keys : Delete(key)
    \/ \E key \in Keys, value \in Vals : CrashInsert(key, value)
    \/ \E key \in Keys : CrashDelete(key)

Spec == Init /\ [][Next]_vars

(* The store used for inserts only (and reopened at will).                  *)
NextInsertOnly ==
    \/ Open
    \/ \E key \in Keys, value \in Vals : Insert(key, value)

InsertSpec == Init /\ [][NextInsertOnly]_vars

(* The store offered pairs beyond the configured limits as well.            *)
NextSizeLimit ==
    \/ Open
    \/ \E key \in Keys, value \in Vals : Insert(key, value)
    \/ \E kv \in OversizeInputs : Insert(kv[1], kv[2])

SizeLimitSpec == Init /\ [][NextSizeLimit]_vars

(* The scenario of test_root_node_split_sorted / _unsorted: a store opened  *)
(* with TestConfig and given the pairs ("alpha","1"), ("beta","1"),         *)
(* ("charlie","1"), in any order and any number of times.                   *)
alpha == <<97, 108, 112, 104, 97>>
beta == <<98, 101, 116, 97>>
charlie == <<99, 104, 97, 114, 108, 105, 101>>
One == <<49>>
TestKeys == {alpha, beta, charlie}

SplitOrderInit == InitWith(TestConfig)

NextSplitOrder ==
    \/ Open
    \/ \E key \in TestKeys : Insert(key, One)

SplitOrderSpec == SplitOrderInit /\ [][NextSplitOrder]_vars

(* The same tree with a fourth key, which makes the internal root overflow  *)
(* its 32-byte page.                                                        *)
delta == <<100, 101, 108, 116, 97>>
MoreTestKeys == TestKeys \cup {delta}

NextInternalSplit ==
    \/ Open
    \/ \E key \in MoreTestKeys : Insert(key, One)

InternalSplitSpec == SplitOrderInit /\ [][NextInternalSplit]_vars

(* The codec on its own, used once on a node of choice: encode the node and *)
(* decode the page (both are pure functions of their input).  The nodes are *)
(* leaves of up to two pairs and internal nodes of up to two keys, with     *)
(* byte strings within the configured limits (the empty string, bytes 0     *)
(* and 255) and child offsets of one, two and four significant bytes.       *)
CodecKeys == {<<>>, <<0>>, <<255>>, <<1, 2>>}
CodecVals == {<<>>, <<7>>, <<0, 255>>, BigVal}
CodecOffsets == {0, 48, 300, (256 ^ 3) + 5}
MaxCodecKeys == 2

CodecLeaves ==
    UNION {{MkNode(k, <<>>, v) : k \in [1..n -> CodecKeys], v \in [1..n -> CodecVals]} :
             n \in 0..MaxCodecKeys}
CodecInternals ==
    UNION {{MkNode(k, c, <<>>) : k \in [1..n -> CodecKeys],
                                 c \in [1..(n + 1) -> CodecOffsets]} :
             n \in 0..MaxCodecKeys}

RoundTrip(node) ==
    LET Back(enc, page) ==
            [node |-> node, encoded |-> enc, page |-> page,
             decoded |-> IF enc = "Some" THEN decode_node(page) ELSE EmptyLeaf]
        Enc(enc) == Back(enc, IF enc = "Some" THEN EncodePage(node) ELSE <<>>)
    IN  /\ codec = NoCodec
        /\ codec' = Enc(encode_node(node))
        /\ UNCHANGED <<storage_config, pages, metadata, root, root_offset, status,
                       last, pre, nops, ncrashes>>

NextCodec == \E node \in CodecLeaves \cup CodecInternals : RoundTrip(node)

CodecSpec == Init /\ [][NextCodec]_vars

(* DiskManager::append_node_to_disk on its own, called on an initialised    *)
(* file with the offset get_new_offset returns, as the engine calls it, and *)
(* a node of choice: leaves and internal nodes that fit a page and that do  *)
(* not.  codec keeps the node and the page the codec made of it.            *)
AppendNodes ==
    {EmptyLeaf,
     MkNode(<<<<1>>>>, <<>>, <<<<7>>>>),
     MkNode(<<<<1>>, <<2>>>>, <<>>, <<<<7>>, BigVal>>),
     MkNode(<<<<1>>, <<2>>>>, <<>>, <<BigVal, BigVal>>),
     MkNode(<<<<1>>, <<1, 2>>, <<2>>>>, <<>>, <<<<7>>, BigVal, <<7>>>>),
     MkNode(<<<<2>>>>, <<48, 96>>, <<>>),
     MkNode(<<<<1, 2>>, <<2>>>>, <<48, 96, 144>>, <<>>),
     MkNode(<<<<1>>, <<1, 2>>, <<2>>>>, <<48, 96, 144, 192>>, <<>>)}

TryAppend(node) ==
    LET Done(ap) ==
            /\ pages' = ap.dm.pages
            /\ metadata' = ap.dm.metadata
            /\ last' = Op("append", NoKey, NoKey, ap.result, Offsets(ap.dm.log),
                          Offsets(ap.dm.unwritten), ap.dm.io)
            /\ codec' = [node |-> node, encoded |-> encode_node(node),
                         page |-> EncodePage(node), decoded |-> EmptyLeaf]
    IN  /\ status = "open"
        /\ nops < MaxOps
        /\ Done(append_node_to_disk(MkDm(pages, metadata),
                                    get_new_offset(MkDm(pages, metadata)), node))
        /\ pre' = Snapshot
        /\ nops' = nops + 1
        /\ UNCHANGED <<storage_config, root, root_offset, status, ncrashes>>

NextAppend ==
    \/ Open
    \/ \E node \in AppendNodes : TryAppend(node)

AppendSpec == Init /\ [][NextAppend]_vars

----------------------------------------------------------------------------
(* Reading a committed tree: the observations the properties are about.     *)
(* A tree is a file (p, m): the node pages and the metadata page.  Walks    *)
(* carry the number of levels they may still descend; a walk that would go  *)
(* deeper than the file has pages is on a cycle and does not end.           *)

Readable(p, offset) == offset >= first_page_offset /\ PageIndex(offset) <= Len(p)

Found(v) == [found |-> TRUE, fails |-> FALSE, value |-> v]
Missing == [found |-> FALSE, fails |-> FALSE, value |-> <<>>]
NoAnswer == [found |-> FALSE, fails |-> TRUE, value |-> <<>>]

(* get: descend from an offset; a key equal to a separator goes right.      *)
RECURSIVE GetAt(_, _, _, _)
GetAt(p, offset, key, depth) ==
    IF depth = 0 \/ ~Readable(p, offset) THEN NoAnswer
    ELSE
    LET Route(node, bs) ==
            IF IsLeaf(node)
            THEN (IF bs.found THEN Found(node.values[bs.pos + 1]) ELSE Missing)
            ELSE IF bs.found
            THEN GetAt(p, node.children[bs.pos + 2], key, depth - 1)
            ELSE GetAt(p, node.children[bs.pos + 1], key, depth - 1)
        At(node) == Route(node, binary_search(node.keys, key))
    IN  At(p[PageIndex(offset)])

Get(p, m, key) == IF m = <<>> THEN NoAnswer ELSE GetAt(p, m[1], key, MaxDepth(p))

(* The leaf entries <<key, value>> in tree order; ok is FALSE (and there    *)
(* are no entries) when the walk meets an unwritten page or does not end.   *)
JoinWalk(a, b) ==
    IF a.ok /\ b.ok THEN [ok |-> TRUE, kv |-> a.kv \o b.kv]
    ELSE [ok |-> FALSE, kv |-> <<>>]

RECURSIVE InOrderAt(_, _, _)
RECURSIVE InOrderKids(_, _, _, _)
InOrderAt(p, offset, depth) ==
    IF depth = 0 \/ ~Readable(p, offset) THEN [ok |-> FALSE, kv |-> <<>>]
    ELSE
    LET At(node) ==
            IF IsLeaf(node)
            THEN [ok |-> TRUE,
                  kv |-> [i \in 1..Len(node.keys) |-> <<node.keys[i], node.values[i]>>]]
            ELSE InOrderKids(p, node.children, 1, depth - 1)
    IN  At(p[PageIndex(offset)])
InOrderKids(p, kids, i, depth) ==
    IF i > Len(kids) THEN [ok |-> TRUE, kv |-> <<>>]
    ELSE JoinWalk(InOrderAt(p, kids[i], depth), InOrderKids(p, kids, i + 1, depth))

InOrder(p, m) ==
    IF m = <<>> THEN [ok |-> FALSE, kv |-> <<>>] ELSE InOrderAt(p, m[1], MaxDepth(p))

KeysUnder(p, offset) ==
    LET Of(w) == {w.kv[i][1] : i \in 1..Len(w.kv)}
    IN  Of(InOrderAt(p, offset, MaxDepth(p)))

(* The offsets a descent from an offset can reach (the offset included).    *)
RECURSIVE ReachAt(_, _, _)
ReachAt(p, offset, depth) ==
    IF depth = 0 \/ ~Readable(p, offset) THEN {offset}
    ELSE LET At(node) ==
                 {offset} \cup UNION {ReachAt(p, node.children[i], depth - 1) :
                                         i \in 1..Len(node.children)}
         IN  At(p[PageIndex(offset)])

Reach(p, m) == IF m = <<>> THEN {} ELSE ReachAt(p, m[1], MaxDepth(p))

(* The depths at which a descent ends in a leaf; -1 for a descent that      *)
(* meets an unwritten page or does not end.                                 *)
RECURSIVE LeafDepthsAt(_, _, _, _)
LeafDepthsAt(p, offset, level, depth) ==
    IF depth = 0 \/ ~Readable(p, offset) THEN {-1}
    ELSE LET At(node) ==
                 IF IsLeaf(node) THEN {level}
                 ELSE UNION {LeafDepthsAt(p, node.children[i], level + 1, depth - 1) :
                               i \in 1..Len(node.children)}
         IN  At(p[PageIndex(offset)])

LeafDepths(p, m) == IF m = <<>> THEN {-1} ELSE LeafDepthsAt(p, m[1], 0, MaxDepth(p))

(* Every offset reachable from the root holds a written page, and no        *)
(* descent comes back to a page it started from.                            *)
Acyclic(p, m) == InOrder(p, m).ok

StrictlyAscending(keys) == \A i \in 1..(Len(keys) - 1) : LexLess(keys[i], keys[i + 1])

WalkKeys(w) == [i \in 1..Len(w.kv) |-> w.kv[i][1]]

NodesSorted(p, m) ==
    \A offset \in Reach(p, m) :
        Readable(p, offset) => StrictlyAscending(p[PageIndex(offset)].keys)

SeparatorsAt(p, node) ==
    \A i \in 1..Len(node.keys) :
        /\ i + 1 <= Len(node.children)
        /\ \A k \in KeysUnder(p, node.children[i + 1]) : ~LexLess(k, node.keys[i])
        /\ \A k \in KeysUnder(p, node.children[i]) : LexLess(k, node.keys[i])

SeparatorDiscipline(p, m) ==
    \A offset \in Reach(p, m) :
        (Readable(p, offset) /\ ~IsLeaf(p[PageIndex(offset)]))
            => SeparatorsAt(p, p[PageIndex(offset)])

----------------------------------------------------------------------------
(* Properties.  `last` names the operation that led to the current state,   *)
(* `pre` holds the file and the facade as they were before it.              *)

Completed(name) == last.op = name /\ last.outcome = "ok" /\ pre.status = "open"

Count(p, m) == Len(InOrder(p, m).kv)

Occurrences(w, key) == Cardinality({i \in 1..Len(w.kv) : w.kv[i][1] = key})

OthersKept(key) ==
    \A k \in Keys \ {key} :
        Get(pre.pages, pre.metadata, k).found
            => Get(pages, metadata, k) = Get(pre.pages, pre.metadata, k)

\* C1: after insert(k, v) of a key k that was not present, a lookup from the
\* committed root finds k with v, every other key that was present is still
\* found with its previous value, and the leaves hold exactly one key more.
C1_InsertNewKeyActsAsMap ==
    (Completed("insert") /\ Get(pre.pages, pre.metadata, last.key) = Missing)
        => /\ Get(pages, metadata, last.key) = Found(last.value)
           /\ OthersKept(last.key)
           /\ InOrder(pages, metadata).ok
           /\ Count(pages, metadata) = Count(pre.pages, pre.metadata) + 1

\* C2: after insert(k, v2) of a key k that was present, the leaves hold exactly
\* one occurrence of k, a lookup of k returns v2, and the number of keys in
\* the tree is unchanged.
C2_UpdateKeepsOneOccurrence ==
    (Completed("insert") /\ Get(pre.pages, pre.metadata, last.key).found)
        => /\ Occurrences(InOrder(pages, metadata), last.key) = 1
           /\ Get(pages, metadata, last.key) = Found(last.value)
           /\ Count(pages, metadata) = Count(pre.pages, pre.metadata)

\* C3: after a committed delete(k) of a key k that was present, k is no longer
\* found from the committed root and every other key that was present is
\* still found with the same value.
C3_DeleteRemovesOnlyTarget ==
    (Completed("delete") /\ Get(pre.pages, pre.metadata, last.key).found)
        => /\ Get(pages, metadata, last.key) = Missing
           /\ OthersKept(last.key)

(* get as the facade serves it: from the cached root, children from disk.   *)
GetLive(p, r, key) ==
    LET Route(bs) ==
            IF IsLeaf(r)
            THEN (IF bs.found THEN Found(r.values[bs.pos + 1]) ELSE Missing)
            ELSE IF bs.found THEN GetAt(p, r.children[bs.pos + 2], key, MaxDepth(p))
            ELSE GetAt(p, r.children[bs.pos + 1], key, MaxDepth(p))
    IN  Route(binary_search(r.keys, key))

\* C4: dropping an open store and opening the same file again succeeds, leaves
\* the file as it was, yields the root offset that was last committed, and
\* answers every lookup as before.
C4_ReopenSeesCommittedState ==
    (last.op = "open" /\ pre.status = "open")
        => /\ last.outcome = "ok"
           /\ status = "open"
           /\ pages = pre.pages
           /\ metadata = pre.metadata
           /\ last.writes = <<>>
           /\ root_offset = pre.metadata[1]
           /\ root_offset = pre.root_offset
           /\ \A k \in Keys : GetLive(pages, root, k) = GetLive(pre.pages, pre.root, k)
           /\ \A k \in Keys : GetLive(pages, root, k) = Get(pre.pages, pre.metadata, k)

C4_Witness ==
    /\ last.op = "open"
    /\ pre.status = "open"
    /\ ~IsLeaf(root)
    /\ \E k \in Keys : GetLive(pages, root, k).found

\* C5: an insert or delete interrupted before its metadata write leaves the
\* metadata page with the previous root offset and every page reachable from
\* that root unchanged, so the file still holds exactly the key/value pairs it
\* held before; the pages the interrupted operation wrote are unreachable.
C5_CrashBeforeCommitIsInvisible ==
    (last.outcome = "crash")
        => /\ metadata = pre.metadata
           /\ \A offset \in Reach(pre.pages, pre.metadata) :
                  Readable(pre.pages, offset)
                      => /\ Readable(pages, offset)
                         /\ pages[PageIndex(offset)] = pre.pages[PageIndex(offset)]
           /\ InOrder(pages, metadata) = InOrder(pre.pages, pre.metadata)
           /\ \A k \in Keys :
                  Get(pages, metadata, k) = Get(pre.pages, pre.metadata, k)
           /\ \A i \in 1..Len(last.writes) :
                  last.writes[i] \notin Reach(pages, metadata)

C5_Witness ==
    /\ last.outcome = "crash"
    /\ Len(last.writes) >= 2
    /\ Count(pre.pages, pre.metadata) >= 2
    /\ ~IsLeaf(pre.root)

Committed == status = "open" /\ last.outcome = "ok"

(* Every reference reachable from the committed root resolves to a written *)
(* page and every descent ends: the trees on which an in-order traversal    *)
(* is a finite sequence of keys.                                            *)
Traversable == Committed /\ Acyclic(pages, metadata)

\* C6: in a committed tree the keys of every reachable node are strictly
\* ascending, and the in-order traversal yields the leaf keys in strictly
\* ascending order, no key twice.  Stated for the committed trees whose
\* traversal ends; on the others there is no traversal to speak of.
C6_Sorted ==
    Traversable
        => /\ NodesSorted(pages, metadata)
           /\ StrictlyAscending(WalkKeys(InOrder(pages, metadata)))

\* C7: in a committed tree, for every reachable internal node with keys
\* k1..kn and children c0..cn, every key under c(i) is >= k(i) and every key
\* under c(i-1) is < k(i).
\* Stated for the committed trees whose traversal ends.
C7_SeparatorDiscipline ==
    Traversable => SeparatorDiscipline(pages, metadata)

SameKind(p, node) ==
    \A i, j \in 1..Len(node.children) :
        (Readable(p, node.children[i]) /\ Readable(p, node.children[j]))
            => IsLeaf(p[PageIndex(node.children[i])])
                   = IsLeaf(p[PageIndex(node.children[j])])

\* C8: in a committed tree every reachable leaf is at the same depth and no
\* leaf is a sibling of an internal node.
C8_Balanced ==
    Committed
        => /\ Cardinality(LeafDepths(pages, metadata)) = 1
           /\ -1 \notin LeafDepths(pages, metadata)
           /\ \A offset \in Reach(pages, metadata) :
                  Readable(pages, offset) => SameKind(pages, pages[PageIndex(offset)])

\* C9: after a successful insert or delete every non-root node reachable from
\* the committed root has an encoded size of at least min_node_size.  Stated
\* for the committed trees whose traversal ends.
C9_Fill ==
    (Traversable /\ last.op \in {"insert", "delete"})
        => \A offset \in Reach(pages, metadata) \ {metadata[1]} :
               Readable(pages, offset)
                   => EncodedSize(pages[PageIndex(offset)]) >= min_node_size

\* C10: delete(k) of a key k that is not present returns without error, writes
\* no node page, and leaves the committed root offset, the tree and every
\* lookup result unchanged.
C10_DeleteMissIsNoOp ==
    (last.op = "delete" /\ last.outcome \in {"ok", "panic"} /\ pre.status = "open"
        /\ Occurrences(InOrder(pre.pages, pre.metadata), last.key) = 0
        /\ Get(pre.pages, pre.metadata, last.key) = Missing)
        => /\ last.outcome = "ok"
           /\ last.writes = <<>>
           /\ pages = pre.pages
           /\ metadata = pre.metadata
           /\ root_offset = pre.root_offset
           /\ \A k \in Keys :
                  Get(pages, metadata, k) = Get(pre.pages, pre.metadata, k)

\* C11: an insert whose key is longer than max_key_size or whose value is
\* longer than max_val_size fails, and fails before any page is written: no
\* page write, the file and the metadata root offset as before.
ExceedsLimits(key, value) == Len(key) > max_key_size \/ Len(value) > max_val_size

C11_OversizeInsertRejected ==
    (last.op = "insert" /\ ExceedsLimits(last.key, last.value))
        => /\ last.outcome = "panic"
           /\ last.writes = <<>>
           /\ pages = pre.pages
           /\ metadata = pre.metadata

\* C12: after an insert, every node the engine linked into the tree was
\* written: no append the engine relied on answered NeedSplit and wrote
\* nothing, and the committed root offset and every child offset reachable
\* from it refer to a written page whose node fits in page_size.
C12_LinkedNodesAreWritten ==
    Completed("insert")
        => /\ last.unwritten = <<>>
           /\ \A offset \in Reach(pages, metadata) :
                  /\ Readable(pages, offset)
                  /\ pages[PageIndex(offset)] # ZeroPage
                  /\ EncodedSize(pages[PageIndex(offset)]) <= page_size

\* C13: every page an insert or delete writes goes to an offset past the end
\* of the file as the operation found it, so no earlier page is overwritten;
\* and the nodes one operation appends (split siblings, a rewritten node, a
\* new root) all receive different offsets.
Distinct(offsets) ==
    \A i, j \in 1..Len(offsets) : i # j => offsets[i] # offsets[j]

C13_NoOffsetReuse ==
    (last.op \in {"insert", "delete"})
        => /\ \A i \in 1..Len(last.writes) :
                  last.writes[i] >= first_page_offset + Len(pre.pages) * page_size
           /\ Len(pages) >= Len(pre.pages)
           /\ SubSeq(pages, 1, Len(pre.pages)) = pre.pages
           /\ Distinct(last.writes \o last.unwritten)

\* C14: for every leaf (one value per key, no children) and every internal
\* node (keys + 1 children, no values) with legal field sizes that fits in a
\* page, decoding the encoded page gives back the same keys, values and
\* children; the page is page_size bytes long.
C14_CodecRoundTrip ==
    (codec.encoded = "Some")
        => /\ Len(codec.page) = page_size
           /\ codec.decoded.keys = codec.node.keys
           /\ codec.decoded.values = codec.node.values
           /\ codec.decoded.children = codec.node.children

C14_Witness ==
    /\ codec.encoded = "Some"
    /\ Len(codec.node.keys) = 2
    /\ Len(codec.node.children) = 3
    /\ \E i \in 1..3 : codec.node.children[i] > 65535
    /\ <<>> \in {codec.node.keys[1], codec.node.keys[2]}
    /\ codec.decoded = codec.node

\* C15: with TestConfig, inserting ("alpha","1"), ("beta","1") and
\* ("charlie","1") into an empty tree in any order ends with an internal root
\* holding the single key "beta", a left leaf [("alpha","1")] and a right
\* leaf [("beta","1"), ("charlie","1")].  Stated step by step: an insert of
\* one of the three pairs into a root leaf that holds the others inserted so
\* far gives the root leaf of both or, as the third pair, that tree.
InOrderOf(S) == SelectSeq(<<alpha, beta, charlie>>, LAMBDA k : k \in S)
Ones(n) == [i \in 1..n |-> One]
LeafOf(S) == MkNode(InOrderOf(S), <<>>, Ones(Cardinality(S)))
PageAt(offset) == pages[PageIndex(offset)]

C15_FirstSplitAnyOrder ==
    \A S \in SUBSET TestKeys :
        (/\ Completed("insert")
         /\ pre.root = LeafOf(S)
         /\ last.key \in TestKeys \ S
         /\ last.value = One)
            => /\ metadata = <<root_offset>>
               /\ Readable(pages, root_offset)
               /\ PageAt(root_offset) = root
               /\ IF Cardinality(S) < 2 THEN root = LeafOf(S \cup {last.key})
                  ELSE /\ root.keys = <<beta>>
                       /\ root.values = <<>>
                       /\ Len(root.children) = 2
                       /\ Readable(pages, root.children[1])
                       /\ Readable(pages, root.children[2])
                       /\ PageAt(root.children[1]) = LeafOf({alpha})
                       /\ PageAt(root.children[2]) = LeafOf({beta, charlie})

C15_Witness ==
    /\ Completed("insert")
    /\ pre.root = LeafOf({beta, charlie})
    /\ last.key = alpha
    /\ root.keys = <<beta>>
    /\ nops = 3

\* C16: open on an empty file succeeds and leaves the metadata page holding
\* first_page_offset, one node page at that offset that decodes to the empty
\* leaf, and the facade's root_offset and root equal to that offset and that
\* leaf; the first insert of a pair into that store, run to its end, then
\* gives a root leaf holding exactly that pair.
FreshStore(t) ==
    /\ t.status = "open"
    /\ t.metadata = <<first_page_offset>>
    /\ t.pages = <<EmptyLeaf>>
    /\ t.root_offset = first_page_offset
    /\ t.root = EmptyLeaf

C16_OpenInitialisesEmptyFile ==
    /\ (last.op = "open" /\ pre.metadata = <<>> /\ pre.pages = <<>>)
           => /\ last.outcome = "ok"
              /\ FreshStore(Snapshot)
              /\ decode_node(EncodePage(pages[1])) = EmptyLeaf
    /\ (last.op = "insert" /\ last.outcome # "crash" /\ FreshStore(pre))
           => /\ last.outcome = "ok"
              /\ status = "open"
              /\ root = MkNode(<<last.key>>, <<>>, <<last.value>>)
              /\ metadata = <<root_offset>>
              /\ Readable(pages, root_offset)
              /\ PageAt(root_offset) = root

C16_Witness ==
    /\ last.op = "insert"
    /\ last.outcome # "crash"
    /\ FreshStore(pre)
    /\ last.value = BigVal
    /\ root.keys = <<last.key>>

\* C17: a delete of a present key from a root leaf that leaves the leaf with
\* an encoded size below min_node_size completes without error and commits the
\* shrunken root leaf: the fill threshold does not make delete fail at the root.
Shrunken(node, key) ==
    MkNode(SelectSeq(node.keys, LAMBDA k : k # key), <<>>,
           VecRemove(node.values, binary_search(node.keys, key).pos))

C17_UnderfullRootIsNotAnError ==
    (/\ last.op = "delete" /\ last.outcome # "crash" /\ pre.status = "open"
     /\ IsLeaf(pre.root)
     /\ binary_search(pre.root.keys, last.key).found
     /\ EncodedSize(Shrunken(pre.root, last.key)) < min_node_size)
        => /\ last.outcome = "ok"
           /\ status = "open"
           /\ root = Shrunken(pre.root, last.key)
           /\ metadata = <<root_offset>>
           /\ Readable(pages, root_offset)
           /\ PageAt(root_offset) = root

\* C18: in an internal node a key equal to separator keys[pos] is routed to
\* children[pos + 1], any other key to children[pos] of its insertion
\* position.  Seen from outside on an internal root over leaves: an insert
\* that splits nothing rewrites exactly the child in that slot, which then
\* holds the key, and a delete rewrites that child without the key.
RightOnEqual(bs) == IF bs.found THEN bs.pos + 1 ELSE bs.pos
RoutedSlot(node, key) == RightOnEqual(binary_search(node.keys, key)) + 1

OverLeaves(t) ==
    /\ t.status = "open"
    /\ ~IsLeaf(t.root)
    /\ \A i \in 1..Len(t.root.children) :
           /\ Readable(t.pages, t.root.children[i])
           /\ IsLeaf(t.pages[PageIndex(t.root.children[i])])

PreChild(slot) == pre.pages[PageIndex(pre.root.children[slot])]

C18_EqualKeyRoutesRight ==
    /\ (Completed("insert") /\ OverLeaves(pre) /\ ~IsLeaf(root)
            /\ Len(root.keys) = Len(pre.root.keys))
           => /\ \A i \in 1..Len(root.children) :
                     i # RoutedSlot(pre.root, last.key)
                         => root.children[i] = pre.root.children[i]
              /\ Readable(pages, root.children[RoutedSlot(pre.root, last.key)])
              /\ \E i \in 1..Len(PageAt(root.children[RoutedSlot(pre.root, last.key)]).keys) :
                     PageAt(root.children[RoutedSlot(pre.root, last.key)]).keys[i] = last.key
    /\ (Completed("delete") /\ OverLeaves(pre) /\ last.writes # <<>>)
           => PageAt(last.writes[1]).keys
                  = SelectSeq(PreChild(RoutedSlot(pre.root, last.key)).keys,
                              LAMBDA k : k # last.key)

\* C19: when the leaf with the new pair put in (n keys) does not fit, the left
\* leaf is the pairs [0, m) with m = n div 2, written at the offset allocated
\* for the rewrite (the end of the file before the insert); the right leaf is
\* the pairs [m, n), written at a newly allocated offset different from the
\* left one; the promoted key is the first key of the right leaf; and left
\* followed by right is the leaf before the split.  Stated for the split of a
\* root leaf and for the split of a leaf below an internal root that itself
\* is not split.
Updated(node, value, bs) ==
    IF bs.found THEN [node EXCEPT !.values[bs.pos + 1] = value] ELSE node
WithPair(node, key, value) ==
    IF binary_search(node.keys, key).found
    THEN Updated(node, value, binary_search(node.keys, key))
    ELSE MkNode(VecInsert(node.keys, binary_search(node.keys, key).pos, key), <<>>,
                VecInsert(node.values, binary_search(node.keys, key).pos, value))

EndOf(t) == first_page_offset + Len(t.pages) * page_size

SplitByIndex(node, m, left_offset, right_offset, promoted_key) ==
    /\ left_offset = EndOf(pre)
    /\ right_offset # left_offset
    /\ right_offset >= EndOf(pre)
    /\ Readable(pages, left_offset)
    /\ Readable(pages, right_offset)
    /\ PageAt(left_offset)
           = MkNode(SubSeq(node.keys, 1, m), <<>>, SubSeq(node.values, 1, m))
    /\ PageAt(right_offset)
           = MkNode(SubSeq(node.keys, m + 1, Len(node.keys)), <<>>,
                    SubSeq(node.values, m + 1, Len(node.keys)))
    /\ promoted_key = node.keys[m + 1]
    /\ PageAt(left_offset).keys \o PageAt(right_offset).keys = node.keys
    /\ PageAt(left_offset).values \o PageAt(right_offset).values = node.values

LeafWasSplit(node, left_offset, right_offset, promoted_key) ==
    SplitByIndex(node, Len(node.keys) \div 2, left_offset, right_offset, promoted_key)

RootLeafSplit ==
    /\ Completed("insert")
    /\ IsLeaf(pre.root)
    /\ ~IsLeaf(root)

ChildLeafSplit ==
    /\ Completed("insert")
    /\ OverLeaves(pre)
    /\ ~IsLeaf(root)
    /\ Len(root.keys) = Len(pre.root.keys) + 1

C19_LeafSplitRule ==
    /\ RootLeafSplit
           => /\ Len(root.keys) = 1
              /\ Len(root.children) = 2
              /\ LeafWasSplit(WithPair(pre.root, last.key, last.value),
                              root.children[1], root.children[2], root.keys[1])
    /\ ChildLeafSplit
           => \E i \in 1..Len(pre.root.children) :
                  /\ Len(root.children) = Len(pre.root.children) + 1
                  /\ LeafWasSplit(WithPair(PreChild(i), last.key, last.value),
                                  root.children[i], root.children[i + 1], root.keys[i])

\* C20: when an internal node with n keys does not fit and is split, with
\* m = n div 2 the left node has the keys [0, m) and the children [0, m], the
\* right node the keys [m + 1, n) and the children [m + 1, n], the promoted key
\* keys[m] is in neither half, every child is in exactly one half, and each
\* half has at least one key and one child more than it has keys.  Seen on
\* the split of an internal root over leaves: the new root holds the promoted
\* key over the two halves.
InternalRootSplit ==
    /\ Completed("insert")
    /\ OverLeaves(pre)
    /\ ~IsLeaf(root)
    /\ Len(root.keys) = 1
    /\ Len(root.children) = 2
    /\ \A i \in 1..2 : /\ Readable(pages, root.children[i])
                       /\ ~IsLeaf(PageAt(root.children[i]))

Sorted(keys) == \A i \in 1..(Len(keys) - 1) : LexLess(keys[i], keys[i + 1])
Members(seq) == {seq[i] : i \in 1..Len(seq)}

HalvesOf(left, right, promoted_key) ==
    /\ Len(left.keys) = (Len(left.keys) + 1 + Len(right.keys)) \div 2
    /\ Sorted(left.keys \o <<promoted_key>> \o right.keys)
    /\ promoted_key \notin Members(left.keys) \cup Members(right.keys)
    /\ Distinct(left.children \o right.children)
    /\ Cardinality(Members(pre.root.children)
                       \ Members(left.children \o right.children)) <= 1
    /\ Len(left.keys) >= 1
    /\ Len(right.keys) >= 1
    /\ Len(left.children) = Len(left.keys) + 1
    /\ Len(right.children) = Len(right.keys) + 1

C20_InternalSplitRule ==
    InternalRootSplit
        => HalvesOf(PageAt(root.children[1]), PageAt(root.children[2]), root.keys[1])

\* C21: when the top-level insert recursion returns a split, the committed
\* root is a new internal node with exactly one key, the promoted key, and
\* exactly two children, the left and the right offset of the split; that node
\* was written; and the tree is one level higher than before.  When it returns
\* a replaced offset the height stays as it was.
RECURSIVE HeightAt(_, _, _)
HeightAt(p, offset, depth) ==
    IF depth = 0 \/ ~Readable(p, offset) THEN -1
    ELSE IF IsLeaf(p[PageIndex(offset)]) THEN 1
    ELSE IF HeightAt(p, p[PageIndex(offset)].children[1], depth - 1) = -1 THEN -1
    ELSE 1 + HeightAt(p, p[PageIndex(offset)].children[1], depth - 1)

(* The number of levels on the leftmost descent; -1 when it does not end.   *)
Height(p, m) == IF m = <<>> THEN -1 ELSE HeightAt(p, m[1], MaxDepth(p))

TopLevelResult ==
    insert_recursive(MkDm(pre.pages, pre.metadata), pre.root, last.key, last.value,
                     MaxDepth(pre.pages))

RootCommit(result) ==
    IF result.splits # <<>>
    THEN /\ root = MkNode(<<result.splits[1].promoted_key>>,
                          <<result.splits[1].left_offset,
                            result.splits[1].right_offset>>, <<>>)
         /\ metadata = <<root_offset>>
         /\ Readable(pages, root_offset)
         /\ PageAt(root_offset) = root
         /\ last.writes # <<>>
         /\ last.writes[Len(last.writes)] = root_offset
         /\ root_offset \notin Members(last.unwritten)
         /\ Height(pages, metadata) = Height(pre.pages, pre.metadata) + 1
    ELSE Height(pages, metadata) = Height(pre.pages, pre.metadata)

C21_RootCommitOnSplit ==
    (Completed("insert") /\ Height(pre.pages, pre.metadata) # -1)
        => RootCommit(TopLevelResult)

\* C22: in every insert or delete that succeeds, the node pages are written
\* first, each write followed by a flush; then the metadata page is written,
\* once, flushed, as the last write of the operation, carrying the root offset
\* that is committed.  The committed root offset changes at that write only:
\* an insert or delete that has not made it leaves the metadata as it was.
IsPageWrite(w) == w.kind = "page" /\ w.sync
IsMetadataWrite(w) == w.kind = "metadata" /\ w.sync /\ w.offset = metadata_offset

PagesThenMetadata(io) ==
    /\ io # <<>>
    /\ \A i \in 1..(Len(io) - 1) : IsPageWrite(io[i])
    /\ IsMetadataWrite(io[Len(io)])
    /\ metadata = <<io[Len(io)].value>>
    /\ [i \in 1..(Len(io) - 1) |-> io[i].offset] = last.writes

C22_CommitOrdering ==
    /\ (Completed("insert") \/ Completed("delete")) => PagesThenMetadata(last.io)
    /\ (last.op \in {"insert", "delete"}
            /\ \A i \in 1..Len(last.io) : last.io[i].kind # "metadata")
           => metadata = pre.metadata

C22_Witness ==
    /\ Completed("insert")
    /\ Len(last.io) >= 4
    /\ metadata # pre.metadata

\* C23: an append of a node whose encoding is longer than page_size answers
\* NeedSplit and leaves the file as it was, contents and length; an append of
\* a node that fits answers Encoded and writes one page of exactly page_size
\* bytes at the offset given, which decodes to the node, and nothing else.
FileLength(t) ==
    IF t.metadata = <<>> /\ t.pages = <<>> THEN 0
    ELSE first_page_offset + Len(t.pages) * page_size

WellShaped(node) ==
    \/ /\ node.children = <<>>
       /\ Len(node.values) = Len(node.keys)
    \/ /\ Len(node.children) = Len(node.keys) + 1
       /\ Len(node.keys) >= 1
       /\ node.values = <<>>

C24_NodeShape ==
    Committed
        => \A offset \in Reach(pages, metadata) :
               Readable(pages, offset) => WellShaped(PageAt(offset))

\* C25: after open and after every completed insert or delete the facade's
\* root_offset is the root offset stored in the metadata page, and the
\* facade's cached root is the decoding of the page at that offset.
ReturnedFrom(names) == last.op \in names /\ last.outcome = "ok" /\ status = "open"

C25_CachedRootConsistent ==
    ReturnedFrom({"open", "insert", "delete"})
        => /\ metadata = <<root_offset>>
           /\ Readable(pages, root_offset)
           /\ root = decode_node(EncodePage(PageAt(root_offset)))

C25_Witness ==
    /\ ReturnedFrom({"insert", "delete"})
    /\ ~IsLeaf(root)
    /\ root_offset # pre.root_offset
    /\ root # pre.root

\* C26: with first_page_offset = page_size and metadata_offset = 0, after any
\* sequence of operations the length of the file is a multiple of page_size,
\* and the committed root offset and every child offset stored in a node
\* reachable from it is a multiple of page_size and at least
\* first_page_offset, so never the metadata page.
Aligned(offset) == offset % page_size = 0 /\ offset >= first_page_offset

ChildrenBelow(p, offset) ==
    \A i \in 1..Len(p[PageIndex(offset)].children) :
        p[PageIndex(offset)].children[i] < offset

C27_WrittenBottomUp ==
    metadata # <<>>
        => /\ \A offset \in Reach(pages, metadata) :
                  Readable(pages, offset) => ChildrenBelow(pages, offset)
           /\ Acyclic(pages, metadata)
           /\ Height(pages, metadata) # -1

====
